---- MODULE Spec2Model ----
(***************************************************************************)
(* Model of src/ledmatrix.c: a HUB75 LED matrix driver that streams a      *)
(* binary-code-modulated bit stream through a ring of DMA descriptors.     *)
(*                                                                         *)
(* Pointers are modelled as follows.  The heap is a function from block    *)
(* ids to blocks, and the pointer malloc returns is a block id (NULL when  *)
(* it fails).  A stream block is a function from byte offsets to bytes; a  *)
(* descriptor's buf is the byte offset into the stream block of its own    *)
(* buffer (NULL while unset).  A descriptor block is a function from       *)
(* indices to descriptor records; a pointer to a descriptor is the pair    *)
(* <<block id, index>>, and the null link is NullLink.                     *)
(***************************************************************************)
EXTENDS Integers, Sequences, FiniteSets, TLC

VARIABLES
    matrix,     \* the global struct matrix
    heap,       \* the DMA-capable heap: block id -> block
    dma,        \* the I2S peripheral's DMA engine
    pc,         \* where the running API call stands ("idle": none is running)
    cur,        \* the running API call and its locals
    ret,        \* what the last finished API call returned or raised
    hist,       \* the successful shows since the last init
    caller,     \* "active" while the script still issues calls
    rb          \* initialize_buffer's locals and the ring it is building

vars == <<matrix, heap, dma, pc, cur, ret, hist, caller, rb>>

\* ---------------------------------------------------------------- constants

DMA_MAX_XFER_SIZE == 4092
BITSTREAM_ROWS_MAX == 6
NULL == -1
NullLink == <<NULL, NULL>>

\* ------------------------------------------------------------------- bounds

\* color depths the ring builder is run with: 1..RingMaxDepth
RingMaxDepth == 8

\* ------------------------------------------------------------ integer helpers

Pow2(n) == 2 ^ n

Min(a, b) == IF a < b THEN a ELSE b

\* ------------------------------------------------- initialize_buffer (the ring)

\* a descriptor after memset(buf->dma_desc, 0, ...)
ZeroDesc == [buf |-> NULL, length |-> 0, size |-> 0, owner |-> 0, next |-> NullLink]

subimage_stride(width, rows) == 2 * width * rows

\* the entries per subimage with the 12-bit field taken as the limit
EntriesFullField(stride) == ((stride - 1) \div Pow2(12)) + 1

dma_entries_per_subimage(stride) == ((stride - 1) \div DMA_MAX_XFER_SIZE) + 1

dma_desc_count(stride, depth) == (Pow2(depth) - 1) * dma_entries_per_subimage(stride)

\* first phase of the construction: the placement loop runs for levels
\* 0 .. color_depth - 2, so with one level it is skipped
FirstPhase(depth) == IF 0 < depth - 1 THEN "place" ELSE "fill"

\* locals of initialize_buffer right after the two memsets
RingStart(b, width, rows, depth) ==
    LET stride == subimage_stride(width, rows)
        count  == dma_desc_count(stride, depth)
    IN [b      |-> b,
        width  |-> width,
        rows   |-> rows,
        stride |-> stride,
        seg    |-> dma_entries_per_subimage(stride),
        count  |-> count,
        depth  |-> depth,
        desc   |-> [j \in 0 .. count - 1 |-> ZeroDesc],
        phase  |-> FirstPhase(depth),
        i      |-> 0,
        k      |-> 0,
        probes |-> 0,
        stuck  |-> FALSE]

\* the position without the rounding down to a slot head
PlacePosUnaligned(count, seg, i, k) ==
    LET n == Pow2(i)
    IN (count * k) \div n + ((count \div n) \div 2)

\* position the code computes for the k-th copy of level i
PlacePos(count, seg, i, k) ==
    LET n   == Pow2(i)
        pos == (count * k) \div n + ((count \div n) \div 2)
    IN (pos \div seg) * seg

\* "Find next free entry, wrap around if required": the while loop of the
\* placement.  probes counts the iterations; the loop looks at one slot head
\* per iteration, so after count \div seg iterations without a free head it
\* has seen every head and never ends (stuck).
RECURSIVE FindFree(_, _, _, _, _)
FindFree(desc, count, seg, pos, probes) ==
    IF desc[pos].buf = NULL
    THEN [pos |-> pos, probes |-> probes, stuck |-> FALSE]
    ELSE IF probes >= count \div seg
         THEN [pos |-> pos, probes |-> probes, stuck |-> TRUE]
         ELSE LET nxt == pos + seg
              IN FindFree(desc, count, seg,
                          IF nxt >= count THEN 0 ELSE nxt, probes + 1)

\* levels the placement loop handles: i < color_depth - 1
PlaceLevels(depth) == depth - 1

\* one iteration of the inner placement loop (one k of one level i)
PlaceOne(r) ==
    LET f    == FindFree(r.desc, r.count, r.seg,
                         PlacePos(r.count, r.seg, r.i, r.k), 0)
        n    == Pow2(r.i)
        last == r.k + 1 >= n
        ni   == IF last THEN r.i + 1 ELSE r.i
        nk   == IF last THEN 0 ELSE r.k + 1
    IN IF f.stuck
       THEN [r EXCEPT !.stuck = TRUE, !.phase = "hang"]
       ELSE [r EXCEPT !.desc[f.pos].buf = r.stride * r.i,
                      !.probes = r.probes + f.probes,
                      !.i = IF ni < PlaceLevels(r.depth) THEN ni ELSE 0,
                      !.k = nk,
                      !.phase = IF ni < PlaceLevels(r.depth) THEN "place" ELSE "fill"]

\* the while (remaining) loop: consecutive descriptors of one slot
RECURSIVE FillBlocks(_, _, _, _)
FillBlocks(desc, i, ptr, remaining) ==
    IF remaining = 0
    THEN [desc |-> desc, i |-> i]
    ELSE LET block == Min(remaining, DMA_MAX_XFER_SIZE)
         IN FillBlocks([desc EXCEPT ![i] = [@ EXCEPT !.buf = ptr,
                                                      !.length = block,
                                                      !.size = block,
                                                      !.owner = 1]],
                       i + 1, ptr + block, remaining - block)

\* one iteration of the "fill remaining elements" for loop, at slot head r.i
FillOne(r) ==
    LET head == IF r.desc[r.i].buf = NULL
                THEN r.stride * (r.depth - 1)
                ELSE r.desc[r.i].buf
        f    == FillBlocks(r.desc, r.i, head, r.stride)
    IN [r EXCEPT !.desc = f.desc,
                 !.i = IF f.i < r.count THEN f.i ELSE 0,
                 !.phase = IF f.i < r.count THEN "fill" ELSE "link"]

\* a link loop that leaves the last descriptor without a successor; C21 must
\* tell it from the code's
LinkAllOpen(r) ==
    [r EXCEPT !.desc = [j \in 0 .. r.count - 1 |->
                           [r.desc[j] EXCEPT !.next =
                               IF j < r.count - 1 THEN <<r.b, j + 1>>
                                                  ELSE NullLink]],
              !.phase = "done"]

\* the link loop and the closing of the loop
LinkAll(r) ==
    [r EXCEPT !.desc = [j \in 0 .. r.count - 1 |->
                           [r.desc[j] EXCEPT !.next =
                               IF j < r.count - 1 THEN <<r.b, j + 1>>
                                                  ELSE <<r.b, 0>>]],
              !.phase = "done"]

RingStep(r) ==
    CASE r.phase = "place" -> PlaceOne(r)
      [] r.phase = "fill"  -> FillOne(r)
      [] r.phase = "link"  -> LinkAll(r)
      [] OTHER             -> r

\* initialize_buffer run to its end (or to the point where it hangs)
RECURSIVE RunRing(_)
RunRing(r) == IF r.phase \in {"done", "hang"} THEN r ELSE RunRing(RingStep(r))

\* ------------------------------------------------------------ bytes and bits

Bit(v, k) == (v \div Pow2(k)) % 2

U8(v) == v % 256

U16(v) == v % 65536

\* ~x on a uint8_t
Not8(x) == 255 - x

\* a | b on 8-bit values, bit by bit from the lowest
Or8(a, b) ==
    LET RECURSIVE Acc(_, _, _)
        Acc(x, y, k) == IF k = 0 \/ (x = 0 /\ y = 0) THEN 0
                        ELSE (IF x % 2 = 1 \/ y % 2 = 1 THEN 1 ELSE 0)
                             + 2 * Acc(x \div 2, y \div 2, k - 1)
    IN Acc(a, b, 8)

\* a & b on 16-bit values, bit by bit from the lowest
And16(a, b) ==
    LET RECURSIVE Acc(_, _, _)
        Acc(x, y, k) == IF k = 0 \/ x = 0 \/ y = 0 THEN 0
                        ELSE (IF x % 2 = 1 /\ y % 2 = 1 THEN 1 ELSE 0)
                             + 2 * Acc(x \div 2, y \div 2, k - 1)
    IN Acc(a, b, 16)

\* a ^ 1
Xor1(a) == IF a % 2 = 0 THEN a + 1 ELSE a - 1

\* ------------------------------------------------------- the struct and the heap

BITSTREAM_COLOR_BYTE == 0
BITSTREAM_CTRL_BYTE == 1
BITSTREAM_CTRL_OE_BIT == 0
BITSTREAM_CTRL_LAT_BIT == 1
BITSTREAM_CTRL_ROW_START_BIT == 2

\* number of blocks the heap can hand out
MaxBlocks == 4

Blocks == 1 .. MaxBlocks

FreeBlock == [live |-> FALSE, bytes |-> <<>>, desc |-> <<>>]

NullBuffer == [stream_data |-> NULL, dma_desc |-> NULL]

\* matrix = {0}, and the struct after memset(&matrix, 0, sizeof(matrix))
MatrixZero ==
    [buffer         |-> [b \in 0 .. 1 |-> NullBuffer],
     dma_desc_count |-> 0,
     width          |-> 0,
     height         |-> 0,
     brightness     |-> 0,
     mono_color     |-> <<0, 0, 0>>,
     rows           |-> 0,
     color_depth    |-> 0,
     backbuffer     |-> 0,
     invert         |-> FALSE,
     column_swap    |-> FALSE,
     double_buffer  |-> FALSE,
     single_chn     |-> FALSE,
     initialized    |-> FALSE]

\* heap_caps_malloc: the lowest free block, or NULL when the allocation fails
\* (ok = FALSE) or no block is left
Malloc(h, ok) ==
    LET free == {x \in Blocks : ~h[x].live}
    IN IF ok /\ free # {} THEN CHOOSE x \in free : \A y \in free : x <= y ELSE NULL

\* free(p) of a non-null p
Free(h, p) == IF p = NULL THEN h ELSE [h EXCEPT ![p] = FreeBlock]

\* a deinit that does not free the descriptors of buffer 1; C20 must tell it
\* from the code's
DeinitFreeLeak(m, h) ==
    LET h1 == Free(h,  m.buffer[0].stream_data)
        h2 == Free(h1, m.buffer[0].dma_desc)
        h3 == Free(h2, m.buffer[1].stream_data)
    IN [matrix |-> MatrixZero, heap |-> h3]

\* the four conditional frees of deinit and the memset of the struct
DeinitFree(m, h) ==
    LET h1 == Free(h,  m.buffer[0].stream_data)
        h2 == Free(h1, m.buffer[0].dma_desc)
        h3 == Free(h2, m.buffer[1].stream_data)
        h4 == Free(h3, m.buffer[1].dma_desc)
    IN [matrix |-> MatrixZero, heap |-> h4]

\* ------------------------------------------------------- create_control_pattern

\* a control byte that latches on the last pixel instead of the second last;
\* C7 must tell it from the code's
ControlByteLatLast(m, row, pixel) ==
    LET display_row == U8(row - 1)
        c0 == U8(display_row * 4)
        c1 == IF pixel < 2 \/ pixel > m.brightness THEN Or8(c0, 1) ELSE c0
        c2 == IF pixel = m.width - 1 THEN Or8(c1, 2) ELSE c1
    IN IF m.invert THEN Not8(c2) ELSE c2

\* the control byte of (row, pixel)
ControlByte(m, row, pixel) ==
    LET display_row == U8(row - 1)
        c0 == U8(display_row * Pow2(BITSTREAM_CTRL_ROW_START_BIT))
        c1 == IF pixel < 2 \/ pixel > m.brightness
              THEN Or8(c0, Pow2(BITSTREAM_CTRL_OE_BIT)) ELSE c0
        c2 == IF pixel = m.width - 2
              THEN Or8(c1, Pow2(BITSTREAM_CTRL_LAT_BIT)) ELSE c1
    IN IF m.invert THEN Not8(c2) ELSE c2

\* position of stream byte j: subimage, row, pixel and byte within the word
StreamLvl(m, j)   == j \div (2 * m.width * m.rows)
StreamRow(m, j)   == (j % (2 * m.width * m.rows)) \div (2 * m.width)
StreamPixel(m, j) == (j % (2 * m.width)) \div 2
StreamByte(j)     == j % 2

\* a control pass that stores each stream word whole, with a zero color byte;
\* C15 must tell it from the code's
create_control_pattern_word(m, bytes) ==
    [j \in DOMAIN bytes |->
        IF StreamLvl(m, j) < m.color_depth
        THEN IF StreamByte(j) = BITSTREAM_CTRL_BYTE
             THEN ControlByte(m, StreamRow(m, j), StreamPixel(m, j))
             ELSE 0
        ELSE bytes[j]]

\* the three loops write px[BITSTREAM_CTRL_BYTE] of every (lvl, row, pixel)
create_control_pattern(m, bytes) ==
    [j \in DOMAIN bytes |->
        IF StreamByte(j) = BITSTREAM_CTRL_BYTE
           /\ StreamLvl(m, j) < m.color_depth
        THEN ControlByte(m, StreamRow(m, j), StreamPixel(m, j))
        ELSE bytes[j]]

\* ------------------------------------------------ initialize_buffer (allocation)

\* the part of initialize_buffer past the two allocation checks: the memsets,
\* the descriptor ring, and the stream data filled with the idle level
BuildBuffer(m, h, ps, pd, size) ==
    LET ring == RunRing(RingStart(pd, m.width, m.rows, m.color_depth))
    IN [matrix |-> m,
        heap   |-> [h EXCEPT ![ps].bytes = [j \in 0 .. size - 1 |->
                                               IF m.invert THEN 255 ELSE 0],
                             ![pd].desc = ring.desc],
        err    |-> IF ring.phase = "hang" THEN "Hang" ELSE "OK"]

\* h with block p taken
Take(h, p) == IF p = NULL THEN h ELSE [h EXCEPT ![p].live = TRUE]

\* initialize_buffer once both heap_caps_malloc calls have returned ps and pd
Allocated(m, h, b, ps, pd, count, size) ==
    IF ps = NULL \/ pd = NULL
    THEN [matrix |-> [m EXCEPT !.dma_desc_count = count,
                               !.buffer[b] = [stream_data |-> ps, dma_desc |-> pd]],
          heap |-> h, err |-> "NoMem"]
    ELSE BuildBuffer([m EXCEPT !.dma_desc_count = count,
                               !.buffer[b] = [stream_data |-> ps, dma_desc |-> pd]],
                     h, ps, pd, size)

\* initialize_buffer from its second allocation on
AllocDesc(m, h, b, ps, okD, stride) ==
    Allocated(m, Take(h, Malloc(h, okD)), b, ps, Malloc(h, okD),
              dma_desc_count(stride, m.color_depth), stride * m.color_depth)

\* initialize_buffer(&matrix.buffer[b]); okS and okD say whether the two
\* allocations succeed.  err is "NoMem" when it raises OSError(ESP_ERR_NO_MEM).
initialize_buffer(m, h, b, okS, okD) ==
    AllocDesc(m, Take(h, Malloc(h, okS)), b, Malloc(h, okS), okD,
              subimage_stride(m.width, m.rows))

\* create_control_pattern(&matrix.buffer[b]) on the heap
ControlPass(m, h, b) ==
    [h EXCEPT ![m.buffer[b].stream_data].bytes = create_control_pattern(m, @)]

\* ---------------------------------------------------------------- start_dma

\* a start_dma that starts at the backbuffer's ring; C19 must tell it from the
\* code's
StartTargetBack(m) ==
    LET buf == IF m.double_buffer THEN m.backbuffer ELSE 0
    IN <<m.buffer[buf].dma_desc, 0>>

\* the descriptor start_dma hands to i2s_parallel_send_dma
StartTarget(m) ==
    LET buf == IF m.double_buffer THEN 1 - m.backbuffer ELSE 0
    IN <<m.buffer[buf].dma_desc, 0>>

\* ------------------------------------------------------------- ledmatrix_init

\* a brightness block that stores the argument as it is, without the
\* increment; C8 must tell it from the code's
InitBrightnessRaw(m, arg) ==
    IF arg > 0
    THEN [brightness |-> U16(arg), raise |-> U16(arg) >= m.width - 1]
    ELSE [brightness |-> U16(m.width - 1), raise |-> FALSE]

\* the brightness block of ledmatrix_init: the stored value, and whether the
\* range check raises
InitBrightness(m, arg) ==
    IF arg > 0
    THEN LET b == U16(arg)
         IN IF b >= m.width - 1
            THEN [brightness |-> b, raise |-> TRUE]
            ELSE [brightness |-> U16(b + 1), raise |-> FALSE]
    ELSE [brightness |-> U16(m.width - 1), raise |-> FALSE]

\* the io_colors loop stops after six items; then the count must fit the mode
ColorPinsAccepted(single_chn, ncolors) ==
    LET iteridx == Min(ncolors, 6)
    IN ~((single_chn /\ iteridx # 3) \/ (~single_chn /\ iteridx # 6))

\* the io_rows loop raises when it meets an item with iteridx >= BITSTREAM_ROWS_MAX
RowPinsAccepted(nrows) == nrows <= BITSTREAM_ROWS_MAX

\* ledmatrix_init after initialize_buffer(&matrix.buffer[1]) returned r1
InitBuffer1(r1) ==
    IF r1.err # "OK" THEN r1
    ELSE [matrix |-> [r1.matrix EXCEPT !.backbuffer = 1],
          heap   |-> ControlPass(r1.matrix, r1.heap, 1),
          err    |-> "OK"]

\* ledmatrix_init after initialize_buffer(&matrix.buffer[0]) returned r0
InitBuffer0(r0, a) ==
    IF r0.err # "OK" THEN r0
    ELSE IF ~r0.matrix.double_buffer
    THEN [matrix |-> r0.matrix, heap |-> ControlPass(r0.matrix, r0.heap, 0),
          err |-> "OK"]
    ELSE InitBuffer1(initialize_buffer(r0.matrix,
                                       ControlPass(r0.matrix, r0.heap, 0), 1,
                                       a.fail \notin {"s1", "sd1"},
                                       a.fail \notin {"d1", "sd1"}))

\* the two buffer set-ups of ledmatrix_init (lines 623-630)
InitBuffers(m, h, a) ==
    InitBuffer0(initialize_buffer(m, h, 0, a.fail \notin {"s0", "sd0"},
                                  a.fail \notin {"d0", "sd0"}), a)

\* ledmatrix_init leaving through mp_raise_*: nothing is undone
Raised(m, h, e) == [matrix |-> m, heap |-> h, err |-> e, send |-> FALSE]

\* ledmatrix_init from i2s_parallel_driver_install on; send tells whether
\* start_dma handed the front ring to the peripheral
InitInstall(bufs, a) ==
    IF bufs.err # "OK" THEN Raised(bufs.matrix, bufs.heap, bufs.err)
    ELSE IF a.fail = "install" THEN Raised(bufs.matrix, bufs.heap, "DriverError")
    ELSE IF a.fail = "send"
    THEN Raised([bufs.matrix EXCEPT !.initialized = TRUE], bufs.heap, "DriverError")
    ELSE [matrix |-> [bufs.matrix EXCEPT !.initialized = TRUE],
          heap |-> bufs.heap, err |-> "OK", send |-> TRUE]

\* ledmatrix_init from the row count on (lines 594-608)
InitGeometry(m, h, a, rows) ==
    InitInstall(InitBuffers([m EXCEPT !.rows = rows,
                                      !.height = IF m.single_chn THEN rows
                                                 ELSE U16(rows * 2),
                                      !.backbuffer = 0,
                                      !.mono_color = <<255, 255, 255>>], h, a), a)

\* ledmatrix_init from the brightness block on; br is what that block made of
\* the argument.  colors_int and rows_int are FALSE when the first item of the
\* pin list is no small int.
InitChecks(m, br, h, a) ==
    IF m.width % 2 = 1 THEN Raised(m, h, "InvalidArgument")
    ELSE IF br.raise \/ m.color_depth = 0
    THEN Raised([m EXCEPT !.brightness = br.brightness], h, "InvalidArgument")
    ELSE IF a.ncolors > 0 /\ ~a.colors_int
    THEN Raised([m EXCEPT !.brightness = br.brightness], h, "TypeError")
    ELSE IF ~ColorPinsAccepted(m.single_chn, a.ncolors)
    THEN Raised([m EXCEPT !.brightness = br.brightness], h, "InvalidArgument")
    ELSE IF a.nrows > 0 /\ ~a.rows_int
    THEN Raised([m EXCEPT !.brightness = br.brightness], h, "TypeError")
    ELSE IF ~RowPinsAccepted(a.nrows)
    THEN Raised([m EXCEPT !.brightness = br.brightness], h, "InvalidArgument")
    ELSE InitGeometry([m EXCEPT !.brightness = br.brightness], h, a,
                      U8(Pow2(a.nrows)))

\* the argument copies of ledmatrix_init (lines 505-510)
InitAssign(m, a) ==
    [m EXCEPT !.width = U16(a.width),
              !.color_depth = U8(a.color_depth),
              !.invert = a.invert,
              !.double_buffer = a.double_buffer,
              !.column_swap = a.column_swap,
              !.single_chn = a.single_channel]

\* ledmatrix_init after its deinit(): m is the zeroed struct
InitBody(m, h, a) ==
    InitChecks(InitAssign(m, a), InitBrightness(InitAssign(m, a), a.brightness), h, a)

\* ------------------------------------------------------------ the framebuffers

\* byte i of the framebuffer with pattern pat
FbByte(pat, i) ==
    CASE pat = 0 -> 0
      [] pat = 1 -> (i * 73 + 41) % 256
      [] pat = 2 -> 255
      [] OTHER   -> (i * (2 * pat + 51) + 17 * pat) % 256

COLOR_RGB565 == 0
COLOR_GS8 == 1
COLOR_MONO == 2

\* the length each case of the switch in ledmatrix_show compares src.len with
ExpectedLen(m, mode) ==
    CASE mode = COLOR_RGB565 -> m.width * m.height * 2
      [] mode = COLOR_GS8    -> m.width * m.height
      [] mode = COLOR_MONO   -> (((m.width - 1) \div 8) + 1) * m.height
      [] OTHER               -> 0

\* ------------------------------------------------------------ pixel decoders

\* ((ch >> (7 - bit)) & 1) for three channels, packed r | g << 1 | b << 2
PackBits(r, g, b, bit) ==
    Bit(r, 7 - bit) + 2 * Bit(g, 7 - bit) + 4 * Bit(b, 7 - bit)

\* a decoder that takes the channels in the order blue, green, red; C16 must
\* tell it from the code's
get_bgr565_bits(color, bit) ==
    LET r == U8(And16(color \div 256, 248))
        g == U8(And16(color \div 8, 252))
        b == U8(color * 8)
    IN PackBits(b, g, r, bit)

get_rgb565_bits(color, bit) ==
    LET r == U8(And16(color \div 256, 248))
        g == U8(And16(color \div 8, 252))
        b == U8(color * 8)
    IN PackBits(r, g, b, bit)

get_mono_color_bits(m, bit) ==
    PackBits(m.mono_color[1], m.mono_color[2], m.mono_color[3], bit)

\* 0x80 >> (1 - (x & 7)): a shift by a negative count is undefined, ub is
\* what the build makes of it
MonoMask(x, ub) ==
    LET s == 1 - (x % 8)
    IN IF s >= 0 THEN 128 \div Pow2(s) ELSE ub

\* the index of the byte the MONO decoder reads: (x >> 3) + ((y * width) >> 3)
mono_index(m, x, y) == (x \div 8) + ((y * m.width) \div 8)

get_color_bits_mono_hlsb(m, x, y, bit, pat, ub) ==
    LET byte == FbByte(pat, mono_index(m, x, y))
    IN IF And16(byte, MonoMask(x, ub)) # 0 THEN get_mono_color_bits(m, bit) ELSE 0

\* the index of the element the RGB565 and the GS8 decoders read
pixel_index(m, x, y) == y * m.width + x

get_color_bits_rgb(m, x, y, bit, pat) ==
    LET idx == pixel_index(m, x, y)
        val == FbByte(pat, 2 * idx) + 256 * FbByte(pat, 2 * idx + 1)
    IN get_rgb565_bits(val, bit)

get_color_bits_gs8(m, x, y, bit, pat) ==
    LET v == FbByte(pat, pixel_index(m, x, y))
        r == U8((v * m.mono_color[1]) \div 255)
        g == U8((v * m.mono_color[2]) \div 255)
        b == U8((v * m.mono_color[3]) \div 255)
    IN PackBits(r, g, b, bit)

\* the get_color_func the switch of ledmatrix_show selects
get_color_bits(m, mode, x, y, bit, pat, ub) ==
    CASE mode = COLOR_RGB565 -> get_color_bits_rgb(m, x, y, bit, pat)
      [] mode = COLOR_GS8    -> get_color_bits_gs8(m, x, y, bit, pat)
      [] OTHER               -> get_color_bits_mono_hlsb(m, x, y, bit, pat, ub)

\* --------------------------------------------------------- update_framebuffer

\* a source column one to the right of the output column; C23 must tell it
\* from the code's
source_px_next(m, pixel) == IF m.column_swap THEN pixel + 1 ELSE pixel

\* source_px = pixel, with the lowest bit flipped on column_swap
source_px(m, pixel) == IF m.column_swap THEN Xor1(pixel) ELSE pixel

\* the source rows of the output row: row, and row + rows for the second
\* channel
source_rows(m, row) == IF m.single_chn THEN {row} ELSE {row, row + m.rows}

\* the color byte of (lvl, row, pixel)
ColorByte(m, mode, pat, ub, lvl, row, pixel) ==
    LET sx  == source_px(m, pixel)
        bit == U8(m.color_depth - lvl - 1)
        c0  == get_color_bits(m, mode, sx, row, bit, pat, ub)
        c1  == IF ~m.single_chn
               THEN Or8(c0, U8(get_color_bits(m, mode, sx, row + m.rows,
                                              bit, pat, ub) * 8))
               ELSE c0
    IN IF m.invert THEN Not8(c1) ELSE c1

\* the three loops write px[BITSTREAM_COLOR_BYTE] of every (lvl, row, pixel)
update_framebuffer(m, bytes, mode, pat, ub) ==
    [j \in DOMAIN bytes |->
        IF StreamByte(j) = BITSTREAM_COLOR_BYTE
           /\ StreamLvl(m, j) < m.color_depth
        THEN ColorByte(m, mode, pat, ub, StreamLvl(m, j), StreamRow(m, j), StreamPixel(m, j))
        ELSE bytes[j]]

\* ----------------------------------------------------------- the DMA engine

\* the peripheral before i2s_parallel_driver_install
DmaOff == [state |-> "off", at |-> NullLink]

\* i2s_parallel_send_dma(desc) taken by the peripheral
DmaRing(at) == [state |-> "ring", at |-> at]

\* the one-word 'safe' descriptor of stop_dma is being sent
DmaSafe == [state |-> "safe", at |-> NullLink]

\* state.tx_idle is set
DmaIdle == [state |-> "idle", at |-> NullLink]

\* the engine finishes the descriptor it is at and follows its next link
DmaFollow(h, d) ==
    LET nxt == h[d.at[1]].desc[d.at[2]].next
    IN IF nxt = NullLink THEN DmaIdle ELSE DmaRing(nxt)

\* -------------------------------------------------------------------- inputs

\* widths 1 .. MaxWidth with MaxWidth = 2 * MaxHalfWidth, color depths
\* 0 .. MaxDepth, 0 .. MaxRowPins row pins, framebuffer patterns 0 .. MaxPattern
MaxHalfWidth == 2
MaxWidth == 2 * MaxHalfWidth
MaxDepth == 2
MaxRowPins == 1
MaxPattern == 1

\* the arguments of the scenario S1 of the specification
S1Args ==
    [width |-> 64, color_depth |-> 1, invert |-> FALSE, double_buffer |-> FALSE,
     column_swap |-> FALSE, single_channel |-> FALSE, brightness |-> 62,
     ncolors |-> 6, colors_int |-> TRUE, nrows |-> 1, rows_int |-> TRUE,
     pins_distinct |-> TRUE, fail |-> "none"]

\* a double-buffered display of the smallest geometry, all else default;
\* pins_distinct tells whether the pin numbers given are pairwise different
\* (the code stores them into cfg.gpios_bus and never compares them)
BaseArgs ==
    [width |-> 2, color_depth |-> 1, invert |-> FALSE,
     double_buffer |-> TRUE, column_swap |-> TRUE, single_channel |-> FALSE,
     brightness |-> -1, ncolors |-> 6, colors_int |-> TRUE, nrows |-> 1,
     rows_int |-> TRUE, pins_distinct |-> TRUE, fail |-> "none"]

\* where the environment can make ledmatrix_init fail: an allocation of
\* buffer 0 or 1 (stream, descriptors, both), the driver install, the DMA send
InitFailures == {"s0", "d0", "sd0", "s1", "d1", "sd1", "install", "send"}

\* the base arguments, single or double buffered, with one argument changed
\* (the brightness is changed on the widest display, where it has a range, once
\* with the inverted output)
InitArgs ==
    LET Bases == {BaseArgs, [BaseArgs EXCEPT !.double_buffer = FALSE]}
    IN UNION { {b}
               \cup {[b EXCEPT !.width = w] : w \in 1 .. MaxWidth}
               \cup {[b EXCEPT !.color_depth = d] : d \in 0 .. MaxDepth}
               \cup {[b EXCEPT !.nrows = n] : n \in (0 .. MaxRowPins) \cup {BITSTREAM_ROWS_MAX + 1}}
               \cup {[b EXCEPT !.width = MaxWidth, !.brightness = v] : v \in -2 .. MaxWidth - 1}
               \cup {[b EXCEPT !.invert = TRUE],
                     [b EXCEPT !.column_swap = FALSE],
                     [b EXCEPT !.single_channel = TRUE, !.ncolors = 3],
                     [b EXCEPT !.single_channel = TRUE],
                     [b EXCEPT !.ncolors = 7],
                     [b EXCEPT !.ncolors = 3],
                     [b EXCEPT !.colors_int = FALSE],
                     [b EXCEPT !.rows_int = FALSE],
                     [b EXCEPT !.pins_distinct = FALSE],
                     [b EXCEPT !.width = MaxWidth, !.invert = TRUE, !.brightness = 1]}
               \cup {[b EXCEPT !.fail = f] : f \in InitFailures}
             : b \in Bases }

\* a show call: the mode argument, the pattern of the framebuffer and the
\* mono_color argument (-1: none); the length of the framebuffer is drawn apart
Frame(mode, pat, mono) ==
    [mode |-> mode, pat |-> pat, mono |-> mono, len |-> 0]

Frames ==
    {Frame(COLOR_RGB565, p, -1) : p \in 0 .. MaxPattern}
    \cup {Frame(COLOR_GS8, MaxPattern, 16744448),
          Frame(COLOR_MONO, MaxPattern, -1),
          Frame(3, 0, -1)}

\* the RGB565 frames and a mode no case of the switch matches
FramesRGB ==
    {Frame(COLOR_RGB565, p, -1) : p \in 0 .. MaxPattern} \cup {Frame(3, 0, -1)}

\* what a build can make of the shift by a negative count in the MONO
\* decoder: a mask with no bit or with every bit; the shift is only
\* undefined for an x with (x & 7) >= 2
UBMasks(m, f) ==
    IF f.mode = COLOR_MONO /\ m.width > 2 THEN {0, 255} ELSE {0}

\* the framebuffer lengths tried with a frame: what its mode expects and one
\* byte more; an RGB565 buffer where no case reads the length
FrameLens(m, f) ==
    IF f.mode \in {COLOR_RGB565, COLOR_GS8, COLOR_MONO}
    THEN {ExpectedLen(m, f.mode), ExpectedLen(m, f.mode) + 1}
    ELSE {ExpectedLen(m, COLOR_RGB565)}

\* the argument of set_brightness: a small int or something else
BrightnessArgs ==
    {[isint |-> TRUE, v |-> v] : v \in -1 .. MaxWidth - 1} \cup {[isint |-> FALSE, v |-> 0]}

\* ----------------------------------------------------------------- API calls

NoCall == [op |-> "none"]

\* the history of the calls: cfg, whether the last init or deinit call was an
\* init that returned without raising, and s1, whether that init was given the
\* arguments of the scenario S1; n and shows, the shows that returned since
\* (the first two in full, then only "more than two"); last, the buffer the
\* latest of them took as strm; bset, whether a set_brightness has stored a
\* brightness since
HistAfter(cfg, s1) ==
    [cfg |-> cfg, s1 |-> cfg /\ s1, n |-> 0, shows |-> <<>>,
     last |-> NULL, bset |-> FALSE]

NoHist == HistAfter(FALSE, FALSE)

Returned(op, err) == [op |-> op, err |-> err]

CanCall == pc = "idle" /\ caller = "active"

\* stop_dma up to its busy-wait: the safe descriptor is handed to the peripheral
EnterStopDma(call) ==
    /\ dma' = DmaSafe
    /\ pc' = "stop_wait"
    /\ cur' = call
    /\ ret' = Returned(call.op, "running")
    /\ UNCHANGED <<matrix, heap, hist>>

\* deinit() past its stop_dma, at the head of ledmatrix_init
InitDeinit ==
    LET d == DeinitFree(matrix, heap)
    IN /\ matrix' = d.matrix
       /\ heap' = d.heap
       /\ pc' = "init_body"
       /\ cur' = [op |-> "init"]
       /\ ret' = Returned("init", "running")
       /\ hist' = NoHist
       /\ UNCHANGED dma

\* deinit() past its stop_dma, for ledmatrix_deinitialize
FinishDeinit ==
    LET d == DeinitFree(matrix, heap)
    IN /\ matrix' = d.matrix
       /\ heap' = d.heap
       /\ pc' = "idle"
       /\ cur' = NoCall
       /\ ret' = Returned("deinit", "OK")
       /\ hist' = NoHist
       /\ UNCHANGED dma

\* ledmatrix_init(...) up to the end of its deinit()
ledmatrix_init ==
    /\ CanCall
    /\ IF matrix.initialized
       THEN EnterStopDma([op |-> "init"])
       ELSE InitDeinit
    /\ UNCHANGED <<caller, rb>>

\* ledmatrix_init(a) from mp_arg_parse_all on
InitCall(a) ==
    LET r == InitBody(matrix, heap, a)
    IN /\ matrix' = r.matrix
       /\ heap' = r.heap
       /\ dma' = IF r.send THEN DmaRing(StartTarget(r.matrix)) ELSE dma
       /\ pc' = IF r.err = "Hang" THEN "hung" ELSE "idle"
       /\ cur' = NoCall
       /\ ret' = Returned("init", r.err)
       /\ hist' = HistAfter(r.err = "OK", a = S1Args)

\* ledmatrix_init(...) from mp_arg_parse_all on; the arguments are drawn here,
\* where they are first read
InitParsed(Args) ==
    /\ pc = "init_body"
    /\ \E a \in Args : InitCall(a)
    /\ UNCHANGED <<caller, rb>>

\* ledmatrix_deinitialize()
ledmatrix_deinitialize ==
    /\ CanCall
    /\ IF matrix.initialized
       THEN EnterStopDma([op |-> "deinit"])
       ELSE FinishDeinit
    /\ UNCHANGED <<caller, rb>>

\* an API call that raises or returns at once, changing nothing else
ReturnNow(op, err) ==
    /\ ret' = Returned(op, err)
    /\ UNCHANGED <<matrix, heap, dma, pc, cur, hist>>

\* ledmatrix_stop()
ledmatrix_stop ==
    /\ CanCall
    /\ IF ~matrix.initialized
       THEN ReturnNow("stop", "NotInitialized")
       ELSE EnterStopDma([op |-> "stop"])
    /\ UNCHANGED <<caller, rb>>

\* a stop_dma that returns without looking at tx_idle; C18 must tell it from
\* the code's
StopDmaReturnsEarly ==
    /\ pc = "stop_wait"
    /\ CASE cur.op = "init"   -> InitDeinit
         [] cur.op = "deinit" -> FinishDeinit
         [] OTHER             -> /\ pc' = "idle"
                                 /\ cur' = NoCall
                                 /\ ret' = Returned("stop", "OK")
                                 /\ UNCHANGED <<matrix, heap, dma, hist>>
    /\ UNCHANGED <<caller, rb>>

\* the busy-wait of stop_dma ends once the peripheral reports tx_idle
StopDmaReturns ==
    /\ pc = "stop_wait"
    /\ dma.state = "idle"
    /\ CASE cur.op = "init"   -> InitDeinit
         [] cur.op = "deinit" -> FinishDeinit
         [] OTHER             -> /\ pc' = "idle"
                                 /\ cur' = NoCall
                                 /\ ret' = Returned("stop", "OK")
                                 /\ UNCHANGED <<matrix, heap, dma, hist>>
    /\ UNCHANGED <<caller, rb>>

\* ledmatrix_resume(): start_dma, whose send the peripheral may refuse
ledmatrix_resume ==
    /\ CanCall
    /\ \E ok \in BOOLEAN :
          IF ~matrix.initialized
          THEN ReturnNow("resume", "NotInitialized")
          ELSE /\ dma' = IF ok THEN DmaRing(StartTarget(matrix)) ELSE dma
               /\ ret' = Returned("resume", IF ok THEN "OK" ELSE "DriverError")
               /\ UNCHANGED <<matrix, heap, pc, cur, hist>>
    /\ UNCHANGED <<caller, rb>>

\* a store of the argument as it is, without the increment; C12 must tell it
\* from the code's
StoreBrightnessRaw(m, newb) == [m EXCEPT !.brightness = U16(newb)]

\* matrix.brightness = newb + 1
StoreBrightness(m, newb) == [m EXCEPT !.brightness = U16(newb + 1)]

\* the create_control_pattern calls of ledmatrix_set_brightness, on buffer 0
\* and, if double buffered, on buffer 1
RewriteControl(m, h) ==
    IF m.double_buffer THEN ControlPass(m, ControlPass(m, h, 0), 1)
    ELSE ControlPass(m, h, 0)

\* ledmatrix_set_brightness(b) for the argument b
SetBrightnessCall(b) ==
    IF ~matrix.initialized THEN ReturnNow("set_brightness", "NotInitialized")
    ELSE IF ~b.isint THEN ReturnNow("set_brightness", "TypeError")
    ELSE IF b.v < 0 \/ b.v >= matrix.width - 1
         THEN ReturnNow("set_brightness", "InvalidArgument")
    ELSE /\ matrix' = StoreBrightness(matrix, b.v)
         /\ heap' = RewriteControl(StoreBrightness(matrix, b.v), heap)
         /\ ret' = Returned("set_brightness", "OK")
         /\ hist' = [hist EXCEPT !.bset = TRUE]
         /\ UNCHANGED <<dma, pc, cur>>

\* ledmatrix_set_brightness(b)
ledmatrix_set_brightness(Vals) ==
    /\ CanCall
    /\ \E b \in Vals : SetBrightnessCall(b)
    /\ UNCHANGED <<caller, rb>>

\* ------------------------------------------------------------- ledmatrix_show

\* the mono_color argument stored into matrix.mono_color when it is >= 0
StoreMonoColor(m, color) ==
    IF color >= 0
    THEN [m EXCEPT !.mono_color = <<(color \div 65536) % 256, (color \div 256) % 256, color % 256>>]
    ELSE m

\* a switch that takes a framebuffer of any length; C11 must tell it from the
\* code's
ShowSwitchAnyLength(m, f) ==
    IF f.mode \in {COLOR_RGB565, COLOR_GS8, COLOR_MONO} THEN "write" ELSE "skip"

\* what the switch on the mode does: "raise" on a length mismatch, "write" when
\* a case matches, "skip" when no case matches
ShowSwitch(m, f) ==
    IF f.mode \in {COLOR_RGB565, COLOR_GS8, COLOR_MONO}
    THEN IF f.len # ExpectedLen(m, f.mode) THEN "raise" ELSE "write"
    ELSE "skip"

\* show returns: the history keeps the first two shows after an init, and
\* only counts "more than two" from the third on
ShowReturns(strm, mode, pat) ==
    /\ pc' = "idle"
    /\ cur' = NoCall
    /\ ret' = Returned("show", "OK")
    /\ hist' = IF hist.n < 2
               THEN [hist EXCEPT !.n = @ + 1,
                                 !.shows = Append(@, [strm |-> strm, mode |-> mode, pat |-> pat]),
                                 !.last = strm]
               ELSE [hist EXCEPT !.n = 3, !.shows = <<>>, !.last = strm]

\* ledmatrix_show(fb, mode, mono_color) up to the switch, for the frame f
ShowCall(f, ub) ==
    IF ~matrix.initialized THEN ReturnNow("show", "NotInitialized")
    ELSE LET m1 == StoreMonoColor(matrix, f.mono)
             sw == ShowSwitch(m1, f)
             call == [op |-> "show", mode |-> f.mode, pat |-> f.pat, ub |-> ub,
                      strm |-> m1.backbuffer]
         IN /\ matrix' = m1
            /\ UNCHANGED <<heap, dma>>
            /\ CASE sw = "raise" -> /\ ret' = Returned("show", "InvalidArgument")
                                    /\ UNCHANGED <<pc, cur, hist>>
                 [] sw = "write" -> /\ pc' = "show_write"
                                    /\ cur' = call
                                    /\ ret' = Returned("show", "running")
                                    /\ UNCHANGED hist
                 [] OTHER -> IF m1.double_buffer
                             THEN /\ pc' = "show_link0"
                                  /\ cur' = call
                                  /\ ret' = Returned("show", "running")
                                  /\ UNCHANGED hist
                             ELSE ShowReturns(m1.backbuffer, f.mode, f.pat)

\* ledmatrix_show(fb, mode, mono_color) up to the switch
ledmatrix_show(Fs) ==
    /\ CanCall
    /\ \E f0 \in Fs : \E len \in FrameLens(matrix, f0), ub \in UBMasks(matrix, f0) :
          ShowCall([f0 EXCEPT !.len = len], ub)
    /\ UNCHANGED <<caller, rb>>

\* update_framebuffer(strm, src.buf, get_color_bits)
ShowWrite ==
    /\ pc = "show_write"
    /\ heap' = [heap EXCEPT ![matrix.buffer[cur.strm].stream_data].bytes =
                   update_framebuffer(matrix, @, cur.mode, cur.pat, cur.ub)]
    /\ IF matrix.double_buffer
       THEN /\ pc' = "show_link0"
            /\ UNCHANGED <<cur, ret, hist>>
       ELSE ShowReturns(cur.strm, cur.mode, cur.pat)
    /\ UNCHANGED <<matrix, dma, caller, rb>>

\* a hand-off that closes the rings onto the buffer being displayed; C2 must
\* tell it from the code's
HandOffTargetFront(m) == <<m.buffer[1 - m.backbuffer].dma_desc, 0>>

\* the descriptor both tail links are set to
HandOffTarget(m) == <<m.buffer[m.backbuffer].dma_desc, 0>>

\* a tail link that closes each ring onto itself, as initialize_buffer left
\* it; C3 must tell it from the code's
SetTailLinkOwn(m, h, b) ==
    [h EXCEPT ![m.buffer[b].dma_desc].desc[m.dma_desc_count - 1].next =
                  <<m.buffer[b].dma_desc, 0>>]

\* matrix.buffer[b].dma_desc[matrix.dma_desc_count - 1].qe.stqe_next = ...
SetTailLink(m, h, b) ==
    [h EXCEPT ![m.buffer[b].dma_desc].desc[m.dma_desc_count - 1].next = HandOffTarget(m)]

ShowLink0 ==
    /\ pc = "show_link0"
    /\ heap' = SetTailLink(matrix, heap, 0)
    /\ pc' = "show_link1"
    /\ UNCHANGED <<matrix, dma, cur, ret, hist, caller, rb>>

ShowLink1 ==
    /\ pc = "show_link1"
    /\ heap' = SetTailLink(matrix, heap, 1)
    /\ pc' = "show_toggle"
    /\ UNCHANGED <<matrix, dma, cur, ret, hist, caller, rb>>

\* a hand-off that leaves the backbuffer index as it is; C4 must tell it from
\* the code's
ToggleBackbufferKeep(m) == m

\* matrix.backbuffer ^= 1
ToggleBackbuffer(m) == [m EXCEPT !.backbuffer = 1 - m.backbuffer]

ShowToggle ==
    /\ pc = "show_toggle"
    /\ matrix' = ToggleBackbuffer(matrix)
    /\ ShowReturns(cur.strm, cur.mode, cur.pat)
    /\ UNCHANGED <<heap, dma, caller, rb>>

\* --------------------------------------------------------- the peripheral

\* the engine moves on to the next descriptor of the ring it streams
DmaStep ==
    /\ dma.state = "ring"
    /\ dma' = DmaFollow(heap, dma)
    /\ UNCHANGED <<matrix, heap, pc, cur, ret, hist, caller, rb>>

\* the safe word has been sent: the peripheral reports tx_idle
DmaSafeDone ==
    /\ dma.state = "safe"
    /\ dma' = DmaIdle
    /\ UNCHANGED <<matrix, heap, pc, cur, ret, hist, caller, rb>>

\* the script ends; the peripheral keeps streaming
ScriptEnd ==
    /\ CanCall
    /\ caller' = "done"
    /\ UNCHANGED <<matrix, heap, dma, pc, cur, ret, hist, rb>>

\* ------------------------------------------------------- the specifications

NoRing == [phase |-> "none"]

Init ==
    /\ matrix = MatrixZero
    /\ heap = [x \in Blocks |-> FreeBlock]
    /\ dma = DmaOff
    /\ pc = "idle"
    /\ cur = NoCall
    /\ ret = Returned("none", "OK")
    /\ hist = NoHist
    /\ caller = "active"
    /\ rb = NoRing

Next ==
    \/ ledmatrix_init
    \/ InitParsed(InitArgs)
    \/ ledmatrix_deinitialize
    \/ ledmatrix_stop
    \/ StopDmaReturns
    \/ ledmatrix_resume
    \/ ledmatrix_set_brightness(BrightnessArgs)
    \/ ledmatrix_show(FramesRGB)
    \/ ShowWrite
    \/ ShowLink0
    \/ ShowLink1
    \/ ShowToggle
    \/ DmaStep
    \/ DmaSafeDone

Spec == Init /\ [][Next]_vars

\* ------------------------------------------ specification of the scenario S1

\* every call on the display of the scenario S1, which is single-buffered
NextS1 ==
    \/ ledmatrix_init
    \/ InitParsed({S1Args})
    \/ ledmatrix_deinitialize
    \/ ledmatrix_stop
    \/ StopDmaReturns
    \/ ledmatrix_resume
    \/ ledmatrix_set_brightness(BrightnessArgs)
    \/ ledmatrix_show(FramesRGB)
    \/ ShowWrite
    \/ DmaStep
    \/ DmaSafeDone

SpecS1 == Init /\ [][NextS1]_vars

\* ------------------------------- specification of a script that comes to an end

\* double-buffered displays with MaxDepth subimages
LiveArgs ==
    {[BaseArgs EXCEPT !.color_depth = MaxDepth],
     [BaseArgs EXCEPT !.color_depth = MaxDepth, !.width = MaxWidth]}

NextLive ==
    \/ ledmatrix_init
    \/ InitParsed(LiveArgs)
    \/ ledmatrix_stop
    \/ StopDmaReturns
    \/ ledmatrix_resume
    \/ ledmatrix_show(FramesRGB)
    \/ ShowWrite
    \/ ShowLink0
    \/ ShowLink1
    \/ ShowToggle
    \/ DmaStep
    \/ DmaSafeDone
    \/ ScriptEnd

\* the peripheral streams on its own: once it is handed a descriptor it
\* finishes it and follows the link, whatever the CPU does
SpecLive == Init /\ [][NextLive]_vars /\ WF_vars(DmaStep)

\* ------------------------------ specification of the shows in every format

\* displays on which each format is shown: the widest double-buffered one
\* without column swap, the smallest single-buffered one, and a
\* single-channel one with inverted output
ModeArgs ==
    {[BaseArgs EXCEPT !.width = MaxWidth, !.column_swap = FALSE],
     [BaseArgs EXCEPT !.double_buffer = FALSE],
     [BaseArgs EXCEPT !.single_channel = TRUE, !.ncolors = 3, !.invert = TRUE,
                      !.color_depth = MaxDepth]}

NextModes ==
    \/ ledmatrix_init
    \/ InitParsed(ModeArgs)
    \/ StopDmaReturns
    \/ ledmatrix_set_brightness(BrightnessArgs)
    \/ ledmatrix_show(Frames)
    \/ ShowWrite
    \/ ShowLink0
    \/ ShowLink1
    \/ ShowToggle
    \/ DmaStep
    \/ DmaSafeDone

SpecModes == Init /\ [][NextModes]_vars

\* ------------------ specification of the calls on a peripheral that may stall

\* the smallest display, double- and single-buffered
CpuArgs == {BaseArgs, [BaseArgs EXCEPT !.double_buffer = FALSE]}

NextCpu ==
    \/ ledmatrix_init
    \/ InitParsed(CpuArgs)
    \/ ledmatrix_deinitialize
    \/ ledmatrix_stop
    \/ StopDmaReturns
    \/ ledmatrix_resume
    \/ ledmatrix_set_brightness(BrightnessArgs)
    \/ ledmatrix_show(FramesRGB)
    \/ ShowWrite
    \/ ShowLink0
    \/ ShowLink1
    \/ ShowToggle
    \/ DmaStep
    \/ DmaSafeDone

\* the steps the CPU takes inside a show call and at the end of the busy-wait
CpuStep ==
    \/ StopDmaReturns
    \/ ShowWrite
    \/ ShowLink0
    \/ ShowLink1
    \/ ShowToggle

\* the CPU keeps executing the call it is in; nothing is assumed of the
\* peripheral, which may never finish a descriptor nor report tx_idle
SpecCpu == Init /\ [][NextCpu]_vars /\ WF_vars(CpuStep)

\* ------------------------------------------- specification of the ring builder

RingWidths == {2, 32, 64, 128}

RingInit ==
    /\ \E w \in RingWidths, a \in 1 .. BITSTREAM_ROWS_MAX, d \in 1 .. RingMaxDepth :
          rb = RingStart(0, w, Pow2(a), d)
    /\ matrix = MatrixZero
    /\ heap = [x \in Blocks |-> FreeBlock]
    /\ dma = DmaOff
    /\ pc = "idle"
    /\ cur = NoCall
    /\ ret = Returned("none", "OK")
    /\ hist = NoHist
    /\ caller = "active"

RingRest == <<matrix, heap, dma, pc, cur, ret, hist, caller>>

RingPlace == rb.phase = "place" /\ rb' = PlaceOne(rb) /\ UNCHANGED RingRest

RingFill == rb.phase = "fill" /\ rb' = FillOne(rb) /\ UNCHANGED RingRest

RingLink == rb.phase = "link" /\ rb' = LinkAll(rb) /\ UNCHANGED RingRest

RingNext == RingPlace \/ RingFill \/ RingLink

SpecRing == RingInit /\ [][RingNext]_vars

\* ------------------------------------------------------ claims on the ring

Ceil(x, y) == IF x % y = 0 THEN x \div y ELSE (x \div y) + 1

RingDone == rb.phase = "done"

\* slot s (seg consecutive descriptors) streams the whole of subimage l
SlotTargets(s, l) ==
    \A m \in 0 .. rb.seg - 1 :
        rb.desc[s * rb.seg + m].buf = rb.stride * l + m * DMA_MAX_XFER_SIZE

SlotsOf(l) == {s \in 0 .. (rb.count \div rb.seg) - 1 : SlotTargets(s, l)}

\* C5: for every geometry the finished ring has (2^D - 1) * seg descriptors
\* with seg = ceil(2*W*rows / 4092), subimage l is the target of exactly 2^l
\* slots for every l < D, no descriptor has a null buffer pointer, and the
\* probing loop of the placement never runs without end.
C5_RingShape ==
    /\ ~rb.stuck
    /\ rb.phase # "hang"
    /\ RingDone =>
          /\ rb.seg = Ceil(2 * rb.width * rb.rows, DMA_MAX_XFER_SIZE)
          /\ DOMAIN rb.desc = 0 .. ((Pow2(rb.depth) - 1) * rb.seg) - 1
          /\ \A l \in 0 .. rb.depth - 1 : Cardinality(SlotsOf(l)) = Pow2(l)
          /\ \A j \in DOMAIN rb.desc : rb.desc[j].buf # NULL

\* a finished ring with several levels placed and several descriptors per slot
C5_Witness == RingDone /\ rb.depth >= 3 /\ rb.seg >= 2

S5Geometry == rb.width = 128 /\ rb.rows = 32 /\ rb.depth = 8

SlotLengthSum(s) ==
    LET RECURSIVE Sum(_)
        Sum(m) == IF m = 0 THEN 0 ELSE rb.desc[s * rb.seg + m - 1].length + Sum(m - 1)
    IN Sum(rb.seg)

\* C6 as stated: for W=128, rows=32, D=8 the stride is 8192, seg is 2, the ring
\* has 510 descriptors and every slot is two descriptors at offsets 0 and 4092
\* of one subimage whose lengths sum to the stride.
C6_Original ==
    (S5Geometry /\ RingDone) =>
        /\ rb.stride = 8192
        /\ rb.seg = 2
        /\ rb.count = 510
        /\ \A s \in 0 .. 254 :
              /\ \E l \in 0 .. 7 : /\ rb.desc[2 * s].buf = rb.stride * l
                                    /\ rb.desc[2 * s + 1].buf = rb.stride * l + 4092
              /\ rb.desc[2 * s].length + rb.desc[2 * s + 1].length = rb.stride

\* C6 amended: for W=128, rows=32, D=8 the stride is 8192, seg is 3 (8192 is
\* more than 2 * 4092), the ring has 255 * 3 = 765 descriptors and every slot is
\* three consecutive descriptors at offsets 0, 4092 and 8184 of one subimage,
\* of lengths 4092, 4092 and 8, which sum to the stride.
C6_Amended ==
    (S5Geometry /\ RingDone) =>
        /\ rb.stride = 8192
        /\ rb.seg = 3
        /\ rb.count = 765
        /\ DOMAIN rb.desc = 0 .. 764
        /\ \A s \in 0 .. 254 :
              /\ \E l \in 0 .. 7 :
                    /\ rb.desc[3 * s].buf = rb.stride * l
                    /\ rb.desc[3 * s + 1].buf = rb.stride * l + 4092
                    /\ rb.desc[3 * s + 2].buf = rb.stride * l + 8184
              /\ rb.desc[3 * s].length = 4092
              /\ rb.desc[3 * s + 1].length = 4092
              /\ rb.desc[3 * s + 2].length = 8
              /\ SlotLengthSum(s) = rb.stride

C6_Witness == S5Geometry /\ RingDone

\* ---------------------------------------------------- claims on the hand-off

\* the stream data of buffer b
StreamOf(b) == heap[matrix.buffer[b].stream_data].bytes

\* the next link of the last descriptor of ring b
TailLink(b) == heap[matrix.buffer[b].dma_desc].desc[matrix.dma_desc_count - 1].next

\* descriptor 0 of ring b
FirstDesc(b) == <<matrix.buffer[b].dma_desc, 0>>

\* the peripheral is at a descriptor of ring b
DmaInRing(b) == dma.state = "ring" /\ dma.at[1] = matrix.buffer[b].dma_desc

InShow == pc \in {"show_write", "show_link0", "show_link1", "show_toggle"}

\* C1: in double-buffered mode no interleaving of show calls and DMA steps
\* reaches a state in which show writes the color bytes of the stream buffer
\* whose ring the DMA engine is traversing.
C1_NoWriteUnderDma ==
    ~(pc = "show_write" /\ matrix.double_buffer /\ DmaInRing(cur.strm))

\* C2: in double-buffered mode, after every show that returned, the next link
\* of the last descriptor of ring 0 and of ring 1 both point at descriptor 0 of
\* the buffer that show took as its destination, the backbuffer index is the
\* other buffer (it has been toggled), and the front buffer is that
\* destination.
C2_HandOff ==
    (matrix.initialized /\ matrix.double_buffer /\ hist.n >= 1 /\ ~InShow) =>
        /\ TailLink(0) = FirstDesc(hist.last)
        /\ TailLink(1) = FirstDesc(hist.last)
        /\ matrix.backbuffer = 1 - hist.last
        /\ 1 - matrix.backbuffer = hist.last

\* more than two shows have returned, the latest into buffer 0
C2_Witness ==
    /\ pc = "idle"
    /\ matrix.initialized /\ matrix.double_buffer
    /\ hist.n = 3 /\ hist.last = 0

\* the script has ended after a show, in double-buffered mode, with the DMA
\* running
ShowThenEnd ==
    /\ caller = "done"
    /\ matrix.initialized /\ matrix.double_buffer
    /\ hist.n >= 1
    /\ dma.state = "ring"

\* the peripheral is at descriptor 0 of the buffer the latest show wrote
AtFresh == hist.n >= 1 /\ dma.at = FirstDesc(hist.last)

\* the peripheral is in the ring of the buffer the latest show wrote
InFresh == hist.n >= 1 /\ DmaInRing(hist.last)

\* C3: in double-buffered mode, if a show completes while the DMA is running
\* and no call follows, then under fair DMA progress the DMA eventually is at
\* descriptor 0 of the freshly written buffer and from then on traverses only
\* that buffer's ring.
C3_ReachesFresh ==
    ShowThenEnd ~> (AtFresh /\ []InFresh)

\* the script ends after a show while the DMA is still in the other ring
C3_Witness == ShowThenEnd /\ DmaInRing(1 - hist.last)

\* buffer b holds the encoding of the framebuffer of the show sh
Holds(b, sh) ==
    StreamOf(b) = update_framebuffer(matrix, StreamOf(b), sh.mode, sh.pat, 0)

\* init, show(fbA), show(fbB) have returned, double-buffered, and the two
\* framebuffers differ in their encoding
TwoShows ==
    /\ pc = "idle"
    /\ hist.cfg /\ matrix.double_buffer
    /\ hist.n = 2
    /\ hist.shows[1].mode = COLOR_RGB565
    /\ hist.shows[2].mode = COLOR_RGB565
    /\ update_framebuffer(matrix, StreamOf(0), COLOR_RGB565, hist.shows[1].pat, 0)
          # update_framebuffer(matrix, StreamOf(0), COLOR_RGB565, hist.shows[2].pat, 0)

\* both tail links point at descriptor 0 of buffer front, which is the front
\* buffer and holds the encoding of shf, while the backbuffer holds that of shb
HandedOff(front, shf, shb) ==
    /\ Holds(front, shf)
    /\ TailLink(0) = FirstDesc(front)
    /\ TailLink(1) = FirstDesc(front)
    /\ front = 1 - matrix.backbuffer
    /\ Holds(matrix.backbuffer, shb)

\* C4 as stated: after init, show(fbA), show(fbB) with double_buffer=true both
\* tail links point at the first descriptor of the buffer holding fbA's
\* encoding, that buffer is the front buffer, and the backbuffer index
\* designates the buffer holding fbB's encoding.
C4_Original ==
    TwoShows => \E x \in {0, 1} : HandedOff(x, hist.shows[1], hist.shows[2])

\* C4 amended: after init, show(fbA), show(fbB) with double_buffer=true both
\* tail links point at the first descriptor of the buffer holding fbB's
\* encoding, that buffer is the front buffer, and the backbuffer index
\* designates the buffer holding fbA's encoding.
C4_Amended ==
    TwoShows => \E x \in {0, 1} : HandedOff(x, hist.shows[2], hist.shows[1])

C4_Witness == TwoShows /\ ~hist.bset

\* ------------------------------------------------ claims on the control bytes

\* the pixel and the row of stream byte j of a display of width w
PixelOf(j, w) == (j \div 2) % w

RowOf(j, w, rows) == ((j \div 2) \div w) % rows

\* a control byte as it is with invert=false
Plain(c) == IF matrix.invert THEN 255 - c ELSE c

OEBit(c) == c % 2

LATBit(c) == (c \div 2) % 2

\* the row-address field: the bits from bit 2 up, taken modulo rows
RowField(c, rows) == (c \div 4) % rows

AllocatedBuffers == {b \in {0, 1} : matrix.buffer[b].stream_data # NULL}

ControlBytes(b) == {j \in DOMAIN StreamOf(b) : j % 2 = BITSTREAM_CTRL_BYTE}

\* C7: in every reachable initialized state, in every allocated buffer and
\* for every (plane, row, pixel), the control byte taken with invert=false (its
\* complement when invert=true) has its OE bit (bit 0) set iff pixel < 2 or
\* pixel > B, its LAT bit (bit 1) set iff pixel = W - 2, and its row-address
\* field equal to (row - 1) mod rows; both buffers carry the same control bytes.
C7_ControlBytes ==
    matrix.initialized =>
        /\ \A b \in AllocatedBuffers : \A j \in ControlBytes(b) :
              LET c == Plain(StreamOf(b)[j])
                  pixel == PixelOf(j, matrix.width)
                  row == RowOf(j, matrix.width, matrix.rows)
              IN /\ (OEBit(c) = 1) <=> (pixel < 2 \/ pixel > matrix.brightness)
                 /\ (LATBit(c) = 1) <=> (pixel = matrix.width - 2)
                 /\ RowField(c, matrix.rows) = (row - 1) % matrix.rows
        /\ AllocatedBuffers = {0, 1} =>
              \A j \in ControlBytes(0) : StreamOf(0)[j] = StreamOf(1)[j]

\* a double-buffered display of the widest geometry, dimmed by a
\* set_brightness after a show
C7_Witness ==
    /\ pc = "idle"
    /\ matrix.initialized /\ matrix.double_buffer
    /\ matrix.width = MaxWidth
    /\ hist.bset /\ hist.n >= 1
    /\ matrix.brightness < matrix.width - 1

\* the scenario S1: init with W=64, one row pin, D=1, dual channel,
\* brightness=62, no column swap, no invert, then one show of an all-zero
\* 64x4 RGB565 framebuffer
S1Shown ==
    /\ pc = "idle"
    /\ hist.cfg /\ hist.s1
    /\ ~hist.bset
    /\ hist.n = 1
    /\ hist.shows[1].mode = COLOR_RGB565
    /\ hist.shows[1].pat = 0

\* every color byte is 0, every control byte has OE set exactly for the pixels
\* of oe and LAT exactly for pixel 62, and its bit 2 (bus bit 10) is
\* (row - 1) mod 2
S1Expect(oe) ==
    \A j \in DOMAIN StreamOf(0) :
        LET c == StreamOf(0)[j]
        IN IF j % 2 = BITSTREAM_COLOR_BYTE
           THEN c = 0
           ELSE /\ (OEBit(c) = 1) <=> (PixelOf(j, 64) \in oe)
                /\ (LATBit(c) = 1) <=> (PixelOf(j, 64) = 62)
                /\ (c \div 4) % 2 = (RowOf(j, 64, 2) - 1) % 2

\* C8 as stated: in the scenario S1 every color byte is 0, every control byte
\* has OE set for pixel in {0, 1, 63} and LAT set for pixel 62, and the
\* row-address bit equals (row - 1) mod 2.
C8_Original == S1Shown => S1Expect({0, 1, 63})

\* C8 amended: in the scenario S1 the stored brightness is 63 = W - 1, so every
\* color byte is 0, every control byte has OE set for pixel in {0, 1} only and
\* LAT set for pixel 62, and the row-address bit equals (row - 1) mod 2.
C8_Amended == S1Shown => (matrix.brightness = 63 /\ S1Expect({0, 1}))

C8_Witness == S1Shown /\ DOMAIN StreamOf(0) = 0 .. 255

\* ----------------------------------------------------- claims on the errors

\* the fully deinitialized driver: the zeroed struct and nothing allocated
Deinitialized ==
    /\ ~matrix.initialized
    /\ \A b \in {0, 1} : matrix.buffer[b] = NullBuffer
    /\ \A x \in Blocks : ~heap[x].live
    /\ matrix.width = 0 /\ matrix.rows = 0 /\ matrix.height = 0
    /\ matrix.color_depth = 0 /\ matrix.brightness = 0
    /\ matrix.dma_desc_count = 0

\* C9: whenever init fails, the driver is left in the fully deinitialized
\* state: the initialized flag is false, no stream buffer or descriptor array
\* remains allocated, and all geometry fields are zero.
C9_FailedInitClean ==
    (pc = "idle" /\ ret.op = "init" /\ ret.err # "OK") => Deinitialized

\* C10: show, set_brightness, stop and resume fail with the not-initialized
\* error exactly when no matrix is configured, that is unless the last init or
\* deinit call was an init that returned without an error.
C10_NotInitialized ==
    (pc = "idle" /\ ret.op \in {"show", "set_brightness", "stop", "resume"}) =>
        ((ret.err = "NotInitialized") <=> ~hist.cfg)

\* ------------------------------------------------ claims on the failed shows

\* the formats the switch of ledmatrix_show knows
Formats == {COLOR_RGB565, COLOR_GS8, COLOR_MONO}

\* the step is the call show(f) on an initialized driver
ShowStep(f, ub) ==
    CanCall /\ matrix.initialized /\ ret'.op = "show" /\ ShowCall(f, ub)

\* the step changes no stream byte, no tail link and not the backbuffer index
BuffersKept ==
    /\ \A b \in AllocatedBuffers :
          /\ StreamOf(b)' = StreamOf(b)
          /\ TailLink(b)' = TailLink(b)
    /\ AllocatedBuffers' = AllocatedBuffers
    /\ matrix'.backbuffer = matrix.backbuffer

\* C11: a show whose framebuffer length does not equal W*H*2 (RGB565), W*H
\* (GS8) or ceil(W/8)*H (MONO_HLSB) raises the invalid-argument error and
\* leaves every stream byte of every buffer, both rings' tail links and the
\* backbuffer index unchanged.
C11_LengthMismatch ==
    [][\A f0 \in Frames : \A len \in FrameLens(matrix, f0), ub \in UBMasks(matrix, f0) :
          (/\ f0.mode \in Formats
           /\ len # (CASE f0.mode = COLOR_RGB565 -> matrix.width * matrix.height * 2
                       [] f0.mode = COLOR_GS8    -> matrix.width * matrix.height
                       [] OTHER -> Ceil(matrix.width, 8) * matrix.height)
           /\ ShowStep([f0 EXCEPT !.len = len], ub))
          => /\ ret' = Returned("show", "InvalidArgument")
             /\ pc' = "idle"
             /\ BuffersKept]_vars

\* a show of a framebuffer of the wrong length has raised on a
\* double-buffered display that had been shown a frame before
C11_Witness ==
    /\ pc = "idle"
    /\ ret = Returned("show", "InvalidArgument")
    /\ matrix.initialized /\ matrix.double_buffer
    /\ hist.n >= 1

\* ------------------------------------------------- claims on the brightness

\* the step is the call set_brightness(b) on an initialized driver
SetBrightnessStep(b) ==
    /\ CanCall /\ matrix.initialized
    /\ ret'.op = "set_brightness"
    /\ SetBrightnessCall(b)

Clamp(v, lo, hi) == IF v < lo THEN lo ELSE IF v > hi THEN hi ELSE v

\* in the struct m and the heap h every control byte of every allocated buffer
\* is the one of the brightness m.brightness
ControlWritten(m, h) ==
    \A b \in {0, 1} : m.buffer[b].stream_data # NULL =>
        \A j \in DOMAIN h[m.buffer[b].stream_data].bytes :
            j % 2 = BITSTREAM_CTRL_BYTE =>
                LET raw == h[m.buffer[b].stream_data].bytes[j]
                    c == IF m.invert THEN 255 - raw ELSE raw
                    pixel == PixelOf(j, m.width)
                IN /\ (OEBit(c) = 1) <=> (pixel < 2 \/ pixel > m.brightness)
                   /\ (LATBit(c) = 1) <=> (pixel = m.width - 2)
                   /\ RowField(c, m.rows) = (RowOf(j, m.width, m.rows) - 1) % m.rows

\* C12 as stated: set_brightness(v) on an initialized driver accepts every
\* integer v, clamps it into [0, W-2], stores B = clamp(v) + 1 and rewrites
\* the control bytes of all buffers; it rejects no value.
C12_Original ==
    [][\A b \in BrightnessArgs :
          (b.isint /\ SetBrightnessStep(b))
          => /\ ret' = Returned("set_brightness", "OK")
             /\ matrix'.brightness = Clamp(b.v, 0, matrix.width - 2) + 1
             /\ ControlWritten(matrix', heap')]_vars

\* C12 amended: set_brightness(v) on an initialized driver accepts an integer
\* v with 0 <= v <= W-2, stores B = v + 1 and rewrites the control bytes of
\* all buffers; for every other integer it raises the invalid-argument error
\* and changes neither the stored brightness nor any buffer.
C12_Amended ==
    [][\A b \in BrightnessArgs :
          (b.isint /\ SetBrightnessStep(b))
          => IF 0 <= b.v /\ b.v <= matrix.width - 2
             THEN /\ ret' = Returned("set_brightness", "OK")
                  /\ matrix'.brightness = b.v + 1
                  /\ ControlWritten(matrix', heap')
             ELSE /\ ret' = Returned("set_brightness", "InvalidArgument")
                  /\ matrix' = matrix
                  /\ heap' = heap]_vars

\* the widest double-buffered display, dimmed by one set_brightness, has
\* refused another
C12_Witness ==
    /\ pc = "idle"
    /\ ret = Returned("set_brightness", "InvalidArgument")
    /\ matrix.initialized /\ matrix.double_buffer
    /\ matrix.width = MaxWidth
    /\ hist.bset /\ matrix.brightness < matrix.width - 1

\* the step is the part of init(a) that follows its deinit
InitStep(a) == pc = "init_body" /\ InitCall(a)

\* C13: for every width W and every user brightness v in [0, W-2] (0
\* included), an init with brightness=v that succeeds stores B = v + 1, and
\* when the brightness is omitted (the default -1) B = W - 1; in every
\* initialized state 1 <= B <= W - 1.
C13_InitBrightness ==
    [][/\ \A a \in InitArgs :
             (InitStep(a) /\ ret'.err = "OK")
             => /\ (0 <= a.brightness /\ a.brightness <= a.width - 2)
                      => matrix'.brightness = a.brightness + 1
                /\ a.brightness = -1 => matrix'.brightness = a.width - 1
       /\ matrix'.initialized =>
             (1 <= matrix'.brightness /\ matrix'.brightness <= matrix'.width - 1)]_vars

\* ------------------------------------------- claims on the arguments of init

\* the arguments the claim C14 has init reject
Rejected(a) ==
    \/ a.width % 2 = 1
    \/ a.brightness # -1 /\ (a.brightness < 0 \/ a.brightness > a.width - 2)
    \/ a.color_depth = 0
    \/ a.nrows < 1 \/ a.nrows > 6
    \/ a.ncolors # (IF a.single_channel THEN 3 ELSE 6)
    \/ ~a.pins_distinct

\* C14: init raises the invalid-argument error, without starting the DMA,
\* whenever W is odd, the brightness given is outside [0, W-2], D = 0, the
\* number of row pins is outside [1, 6] (0 pins included), the number of
\* color pins is not exactly 3 in single-channel mode or exactly 6 in
\* dual-channel mode (more than 6 included), or two pin indices are equal.
C14_InitRejects ==
    [][\A a \in InitArgs :
          (InitStep(a) /\ Rejected(a))
          => /\ ret' = Returned("init", "InvalidArgument")
             /\ dma' = dma
             /\ ~matrix'.initialized]_vars

\* ------------------------------------------------- claims on the byte lanes

\* the bytes of lane (0: color, 1: control) of every allocated buffer, in the
\* struct m and the heap h
Lane(m, h, lane) ==
    [b \in {x \in {0, 1} : m.buffer[x].stream_data # NULL} |->
        [j \in {i \in DOMAIN h[m.buffer[b].stream_data].bytes : i % 2 = lane} |->
            h[m.buffer[b].stream_data].bytes[j]]]

\* the descriptors of every allocated ring, the next link of the last one
\* left out
DescFields(m, h) ==
    [b \in {x \in {0, 1} : m.buffer[x].dma_desc # NULL} |->
        [i \in DOMAIN h[m.buffer[b].dma_desc].desc |->
            IF i = m.dma_desc_count - 1
            THEN [h[m.buffer[b].dma_desc].desc[i] EXCEPT !.next = NullLink]
            ELSE h[m.buffer[b].dma_desc].desc[i]]]

\* the step leaves the heap and the buffer pointers as they are, and with
\* them every lane and every descriptor
Untouched ==
    /\ heap' = heap
    /\ matrix'.buffer = matrix.buffer
    /\ matrix'.dma_desc_count = matrix.dma_desc_count

\* the step belongs to a show call: the call itself or one of its later steps
ShowSteps ==
    \/ (ret'.op = "show" /\ ledmatrix_show(Frames))
    \/ ShowWrite
    \/ ShowLink0
    \/ ShowLink1
    \/ ShowToggle

\* C15: set_brightness changes the color byte of no stream word of any
\* buffer, and show changes the control byte of no stream word and no
\* descriptor field other than the next links of the two last descriptors;
\* this holds for every step of every sequence of calls.
C15_ByteLanes ==
    [][/\ (ret'.op = "set_brightness" /\ ledmatrix_set_brightness(BrightnessArgs))
            => \/ Untouched
               \/ Lane(matrix', heap', BITSTREAM_COLOR_BYTE)
                     = Lane(matrix, heap, BITSTREAM_COLOR_BYTE)
       /\ ShowSteps
            => \/ Untouched
               \/ /\ Lane(matrix', heap', BITSTREAM_CTRL_BYTE)
                        = Lane(matrix, heap, BITSTREAM_CTRL_BYTE)
                  /\ DescFields(matrix', heap') = DescFields(matrix, heap)]_vars

\* a double-buffered display that was shown a frame with a nonzero color
\* byte, was then dimmed, and was shown a frame again
C15_Witness ==
    /\ pc = "idle"
    /\ ret = Returned("show", "OK")
    /\ matrix.initialized /\ matrix.double_buffer
    /\ hist.bset /\ hist.n >= 2
    /\ matrix.brightness < matrix.width - 1
    /\ \E b \in {0, 1} : \E j \in DOMAIN StreamOf(b) :
          j % 2 = BITSTREAM_COLOR_BYTE /\ StreamOf(b)[j] # 0

\* ------------------------------------------------ claims on the color bytes

\* the show that returned last, while the history keeps the shows in full
LatestShow == hist.shows[hist.n]

\* a show of the format mode is the latest call that wrote a buffer, and no
\* call is running
Shown(mode) ==
    /\ pc = "idle"
    /\ matrix.initialized
    /\ hist.n \in {1, 2}
    /\ LatestShow.mode = mode

\* the 16-bit value of pixel (x, y) of an RGB565 framebuffer of width w
Rgb565At(pat, w, x, y) ==
    FbByte(pat, 2 * (y * w + x)) + 256 * FbByte(pat, 2 * (y * w + x) + 1)

\* the channels expanded to 8 bits: (v>>8)&0xF8, (v>>3)&0xFC, (v<<3)&0xFF
R8(v) == (v \div 2048) * 8

G8(v) == ((v \div 32) % 64) * 4

B8(v) == (v % 32) * 8

\* the bit of the 8-bit value c at position k counted from its MSB
MsbBit(c, k) == (c \div Pow2(7 - k)) % 2

\* the (R, G, B) bits at position k of the value v, R in bit 0
RgbBits(v, k) == MsbBit(R8(v), k) + 2 * MsbBit(G8(v), k) + 4 * MsbBit(B8(v), k)

\* pixel XOR column_swap
SourceX(pixel) ==
    IF matrix.column_swap THEN pixel + 1 - 2 * (pixel % 2) ELSE pixel

\* the color byte the claim gives for (l, row, pixel)
Rgb565Byte(pat, l, row, pixel) ==
    LET k  == matrix.color_depth - 1 - l
        lo == RgbBits(Rgb565At(pat, matrix.width, SourceX(pixel), row), k)
        hi == IF matrix.single_chn THEN 0
              ELSE RgbBits(Rgb565At(pat, matrix.width, SourceX(pixel),
                                    row + matrix.rows), k)
    IN IF matrix.invert THEN 255 - (lo + 8 * hi) ELSE lo + 8 * hi

\* the color byte of (l, row, pixel) in buffer b, taken with invert=false
PlainColorAt(b, l, row, pixel) ==
    Plain(StreamOf(b)[l * (2 * matrix.width * matrix.rows)
                      + row * (2 * matrix.width) + 2 * pixel])

\* bit ch of the color bytes of (row, pixel) collected over the planes, the
\* plane l giving the bit of weight 2^l
Collected(b, row, pixel, ch) ==
    LET RECURSIVE Sum(_)
        Sum(l) == IF l < 0 THEN 0
                  ELSE Bit(PlainColorAt(b, l, row, pixel), ch) * Pow2(l) + Sum(l - 1)
    IN Sum(matrix.color_depth - 1)

\* the top D bits of the 8-bit value c
TopBits(c) == c \div Pow2(8 - matrix.color_depth)

\* pixel values with each channel's lowest and highest bit alone, all set,
\* none set, and mixed
Rgb565Samples == {0, 1, 32, 2048, 16, 1024, 32768, 2079, 43690, 21845, 65535}

\* the decoder gives the claim's bits at each of the eight positions
DecoderAgrees ==
    \A v \in Rgb565Samples, k \in 0 .. 7 : get_rgb565_bits(v, k) = RgbBits(v, k)

\* C16: after show of an RGB565 framebuffer, for every plane l in [0, D), row
\* and pixel, the color byte at offset l*(2*W*rows) + row*(2*W) + 2*pixel
\* holds in bits 0..2 the (R, G, B) bits at position D-1-l counted from the
\* MSB of the 8-bit-expanded channels of source pixel (pixel XOR column_swap,
\* row) and, in dual-channel mode, in bits 3..5 the same for the source pixel
\* (pixel XOR column_swap, row+rows), complemented with invert; the bits
\* collected over all l reproduce the top D bits of each channel.
C16_Rgb565 ==
    Shown(COLOR_RGB565) =>
      /\ DecoderAgrees
      /\ \A row \in 0 .. matrix.rows - 1, pixel \in 0 .. matrix.width - 1 :
            /\ \A l \in 0 .. matrix.color_depth - 1 :
                  StreamOf(hist.last)[l * (2 * matrix.width * matrix.rows)
                                      + row * (2 * matrix.width) + 2 * pixel]
                     = Rgb565Byte(LatestShow.pat, l, row, pixel)
            /\ LET v == Rgb565At(LatestShow.pat, matrix.width, SourceX(pixel), row)
               IN /\ Collected(hist.last, row, pixel, 0) = TopBits(R8(v))
                  /\ Collected(hist.last, row, pixel, 1) = TopBits(G8(v))
                  /\ Collected(hist.last, row, pixel, 2) = TopBits(B8(v))
            /\ ~matrix.single_chn =>
                  LET v == Rgb565At(LatestShow.pat, matrix.width, SourceX(pixel),
                                    row + matrix.rows)
                  IN /\ Collected(hist.last, row, pixel, 3) = TopBits(R8(v))
                     /\ Collected(hist.last, row, pixel, 4) = TopBits(G8(v))
                     /\ Collected(hist.last, row, pixel, 5) = TopBits(B8(v))

\* an RGB565 framebuffer with nonzero pixels has been shown on a
\* dual-channel display with column swap and MaxDepth planes
C16_Witness ==
    /\ Shown(COLOR_RGB565)
    /\ LatestShow.pat = MaxPattern
    /\ matrix.column_swap /\ ~matrix.single_chn
    /\ matrix.color_depth = MaxDepth

\* the bit of pixel (x, y) the claim has the MONO_HLSB decoder test: byte
\* (x>>3) + y*ceil(W/8) against the mask 0x80 >> ((x XOR 1) & 7)
MonoBitAt(pat, x, y) ==
    MsbBit(FbByte(pat, (x \div 8) + y * Ceil(matrix.width, 8)),
           (x + 1 - 2 * (x % 2)) % 8)

\* the mono tint bits at position k counted from the MSB
TintBits(k) ==
    MsbBit(matrix.mono_color[1], k) + 2 * MsbBit(matrix.mono_color[2], k)
    + 4 * MsbBit(matrix.mono_color[3], k)

\* the color byte of (l, row, pixel) with the decoder of the claim
MonoByte(pat, l, row, pixel) ==
    LET k  == matrix.color_depth - 1 - l
        lo == IF MonoBitAt(pat, SourceX(pixel), row) = 1 THEN TintBits(k) ELSE 0
        hi == IF ~matrix.single_chn /\ MonoBitAt(pat, SourceX(pixel), row + matrix.rows) = 1
              THEN TintBits(k) ELSE 0
    IN IF matrix.invert THEN 255 - (lo + 8 * hi) ELSE lo + 8 * hi

\* C17: for every even width W (widths that are no multiple of 8 included)
\* and every (x, y) with x < W and y < H, the MONO_HLSB decoder tests the
\* framebuffer byte at index (x>>3) + y*ceil(W/8) against the mask
\* 0x80 >> ((x XOR 1) & 7) and returns the mono tint bits when the bit is 1
\* and 0 when it is 0; so after a show of a MONO_HLSB framebuffer with the
\* tint of init every color byte is the one this decoder gives.
C17_MonoDecoder ==
    (Shown(COLOR_MONO) /\ matrix.mono_color = <<255, 255, 255>>) =>
        \A l \in 0 .. matrix.color_depth - 1, row \in 0 .. matrix.rows - 1,
           pixel \in 0 .. matrix.width - 1 :
            StreamOf(hist.last)[l * (2 * matrix.width * matrix.rows)
                                + row * (2 * matrix.width) + 2 * pixel]
               = MonoByte(LatestShow.pat, l, row, pixel)

\* --------------------------------------------------- claims on the blocking

\* a call is in the busy-wait of stop_dma
Waiting == pc = "stop_wait"

\* C18 as stated: only stop() can block; init, show, set_brightness, resume
\* and deinit never wait on the peripheral.
C18_OnlyStopWaits == Waiting => cur.op = "stop"

\* C18 amended: show, set_brightness and resume always return without
\* waiting on the peripheral, whatever its tx_idle flag does; stop(), and
\* deinit() and init() called on an initialized driver, busy-wait in
\* stop_dma: they leave the wait only when the peripheral reports tx_idle,
\* and do leave it once it does.
C18_Blocking ==
    /\ [](Waiting => (cur.op \in {"stop", "deinit", "init"} /\ matrix.initialized))
    /\ [](pc # "idle" => cur.op \in {"stop", "deinit", "init", "show"})
    /\ (InShow ~> pc = "idle")
    /\ [][(Waiting /\ pc' # "stop_wait") => dma.state = "idle"]_vars
    /\ ((Waiting /\ dma.state = "idle") ~> ~Waiting)

\* deinit() of an initialized driver waits while the peripheral has not
\* reported tx_idle
C18_Witness ==
    /\ Waiting
    /\ cur.op = "deinit"
    /\ dma.state = "safe"

\* ------------------------------------------------ claims on stop and resume

\* the step belongs to a stop() call: the call itself or the end of its wait
StopSteps ==
    \/ ledmatrix_stop
    \/ (cur.op = "stop" /\ StopDmaReturns)

\* the front buffer of the claim: buffer 0 in single-buffered mode and when
\* no show has returned since init, else the buffer the latest show that
\* returned took as its destination
Front == IF matrix.double_buffer /\ hist.n >= 1 THEN hist.last ELSE 0

\* C19: stop() leaves geometry, stream buffers, rings and backbuffer index
\* unchanged, and a resume() that succeeds (also after shows performed while
\* stopped) starts the DMA at descriptor 0 of the front buffer: buffer 0 in
\* single-buffered mode, and in double-buffered mode buffer 0 if no show has
\* completed since init, otherwise the destination buffer of the most recent
\* completed show.
C19_StopResume ==
    [][/\ StopSteps => (matrix' = matrix /\ heap' = heap)
       /\ (ledmatrix_resume /\ ret' = Returned("resume", "OK"))
            => dma' = DmaRing(FirstDesc(Front))]_vars

\* a resume has started the DMA of a double-buffered display at buffer 1, the
\* destination of the latest show
C19_Witness ==
    /\ pc = "idle"
    /\ ret = Returned("resume", "OK")
    /\ matrix.initialized /\ matrix.double_buffer
    /\ hist.n >= 1 /\ hist.last = 1
    /\ dma = DmaRing(FirstDesc(1))

\* ---------------------------------------------------------- claims on deinit

\* the blocks the four buffer pointers of the struct m refer to
Referenced(m) ==
    ({m.buffer[b].stream_data : b \in {0, 1}} \cup {m.buffer[b].dma_desc : b \in {0, 1}})
    \ {NULL}

\* the stream buffers and the descriptor rings allocated in the heap h
LiveStreams(h) == {x \in Blocks : h[x].live /\ h[x].bytes # <<>>}

LiveRings(h) == {x \in Blocks : h[x].live /\ h[x].desc # <<>>}

Live(h) == {x \in Blocks : h[x].live}

\* the step ends a deinit(): that of ledmatrix_deinitialize or the one at the
\* head of ledmatrix_init, without or after the wait of stop_dma
DeinitEnds ==
    \/ (~matrix.initialized /\ (ledmatrix_deinitialize \/ ledmatrix_init))
    \/ (cur.op \in {"deinit", "init"} /\ StopDmaReturns)

\* the pristine state: the zeroed struct and nothing allocated
Pristine(m, h) == m = MatrixZero /\ Live(h) = {}

\* C20: from every reachable state deinit() ends in the pristine state
\* (initialized false, all four buffer pointers released and null, every
\* geometry field zero), no buffer is freed while the DMA is streaming or
\* sending, and a deinit() in the pristine state changes nothing; over any
\* sequence of init (successful or failed) and deinit calls there are never
\* more than two stream buffers and two descriptor rings allocated, and every
\* allocated block is referenced by a buffer pointer of the struct.
C20_Deinit ==
    [][/\ DeinitEnds => Pristine(matrix', heap')
       /\ (\E x \in Blocks : heap[x].live /\ ~heap'[x].live)
            => dma.state \notin {"ring", "safe"}
       /\ (Pristine(matrix, heap) /\ ledmatrix_deinitialize)
            => (matrix' = matrix /\ heap' = heap /\ dma' = dma /\ pc' = "idle")
       /\ Live(heap') \subseteq Referenced(matrix')
       /\ Cardinality(LiveStreams(heap')) <= 2
       /\ Cardinality(LiveRings(heap')) <= 2]_vars

\* deinit() has returned after stopping the DMA of a driver that was
\* initialized
C20_Witness ==
    /\ pc = "idle"
    /\ ret = Returned("deinit", "OK")
    /\ Pristine(matrix, heap)
    /\ dma.state = "idle"

\* ------------------------------------------------------- claims on the rings

\* the rings allocated: the buffers with a descriptor array
AllocatedRings == {b \in {0, 1} : matrix.buffer[b].dma_desc # NULL}

\* the descriptors of ring b
RingOf(b) == heap[matrix.buffer[b].dma_desc].desc

\* the lengths of the descriptors 0 .. n-1 of ring b, summed
LengthSum(b, n) ==
    LET RECURSIVE Sum(_)
        Sum(i) == IF i = 0 THEN 0 ELSE RingOf(b)[i - 1].length + Sum(i - 1)
    IN Sum(n)

\* C21: in every reachable initialized state, the states between the two
\* tail-link stores and the backbuffer toggle of a hand-off included, every
\* descriptor i < N-1 of each allocated ring links to descriptor i+1 of the
\* same ring and the last descriptor of each allocated ring links to
\* descriptor 0 of an allocated ring (its own in single-buffered mode); a DMA
\* engine that follows next is at a descriptor of an allocated ring and never
\* reads a null link; the descriptor lengths of one ring cycle sum to
\* (2^D - 1) * 2*W*rows.
C21_RingsLinked ==
    matrix.initialized =>
        /\ AllocatedRings = (IF matrix.double_buffer THEN {0, 1} ELSE {0})
        /\ \A b \in AllocatedRings :
              /\ DOMAIN RingOf(b) = 0 .. matrix.dma_desc_count - 1
              /\ \A i \in 0 .. matrix.dma_desc_count - 2 :
                    RingOf(b)[i].next = <<matrix.buffer[b].dma_desc, i + 1>>
              /\ \E t \in AllocatedRings : TailLink(b) = FirstDesc(t)
              /\ ~matrix.double_buffer => TailLink(b) = FirstDesc(b)
              /\ \A i \in DOMAIN RingOf(b) : RingOf(b)[i].next # NullLink
              /\ LengthSum(b, matrix.dma_desc_count)
                    = (Pow2(matrix.color_depth) - 1) * 2 * matrix.width * matrix.rows
        /\ dma.state = "ring" =>
              \E b \in AllocatedRings :
                  /\ dma.at[1] = matrix.buffer[b].dma_desc
                  /\ dma.at[2] \in DOMAIN RingOf(b)

\* a hand-off stands between its two tail-link stores, with the rings of
\* several descriptors closed onto different buffers, while the DMA streams
C21_Witness ==
    /\ pc = "show_link1"
    /\ matrix.initialized /\ matrix.double_buffer
    /\ matrix.dma_desc_count >= 3
    /\ TailLink(0) # TailLink(1)
    /\ dma.state = "ring"

\* ------------------------------------------------- claims on what show hands off

\* a show call has returned without raising and is the latest call; the
\* history holds its arguments
ShowReturned ==
    /\ pc = "idle"
    /\ matrix.initialized
    /\ ret = Returned("show", "OK")
    /\ hist.n \in {1, 2}

\* the DMA is directed to buffer b: the single buffer, or the buffer both
\* rings are closed onto
DirectedTo(b) ==
    IF matrix.double_buffer
    THEN TailLink(0) = FirstDesc(b) /\ TailLink(1) = FirstDesc(b)
    ELSE b = 0

\* C22: after every show call that returns successfully, for any integer
\* value of the mode argument, the buffer the DMA is directed to (the new
\* front buffer in double-buffered mode, the single buffer otherwise) has
\* color bytes equal to the encoding of the framebuffer passed to that call:
\* the call decoded the framebuffer in one of the formats and wrote the whole
\* buffer before the hand-off.
C22_ShowEncodes ==
    ShowReturned =>
        /\ DirectedTo(hist.last)
        /\ LatestShow.mode \in Formats
        /\ Holds(hist.last, LatestShow)

\* --------------------------------------------- claims on the framebuffer reads

\* the bytes of the framebuffer the decoder of the format mode reads for the
\* source pixel (x, y)
BytesRead(m, mode, x, y) ==
    CASE mode = COLOR_RGB565 -> {2 * pixel_index(m, x, y), 2 * pixel_index(m, x, y) + 1}
      [] mode = COLOR_GS8    -> {pixel_index(m, x, y)}
      [] OTHER               -> {mono_index(m, x, y)}

\* every read of update_framebuffer on the display m in the format mode stays
\* inside a framebuffer of the length the switch checked
ReadsInside(m, mode) ==
    \A pixel \in 0 .. m.width - 1, row \in 0 .. m.rows - 1 :
        \A y \in source_rows(m, row) :
            /\ source_px(m, pixel) \in 0 .. m.width - 1
            /\ y \in 0 .. m.height - 1
            /\ mode \in {COLOR_RGB565, COLOR_GS8}
                  => pixel_index(m, source_px(m, pixel), y) < m.width * m.height
            /\ mode = COLOR_MONO
                  => mono_index(m, source_px(m, pixel), y) < Ceil(m.width, 8) * m.height
            /\ BytesRead(m, mode, source_px(m, pixel), y)
                  \subseteq 0 .. ExpectedLen(m, mode) - 1

\* displays wider than a byte of MONO pixels, with the geometry fields as
\* ledmatrix_init derives them: an even width, rows a power of two, height
\* rows or 2 * rows
WideDisplays ==
    {[width |-> w, rows |-> r, height |-> IF sc THEN r ELSE 2 * r,
      column_swap |-> cs, single_chn |-> sc] :
        w \in {10, 18}, r \in {2}, cs \in BOOLEAN, sc \in BOOLEAN}

\* C23: every framebuffer index read during a show that passed the length
\* check lies inside the supplied buffer: for all pixel < W and row < rows,
\* with or without column_swap, in single or dual channel mode, the source x
\* is < W and the source y is < H, the RGB565 and GS8 index y*W+x is < W*H
\* and the MONO_HLSB byte index (x>>3) + ((y*W)>>3) is < ceil(W/8)*H.
C23_ReadsInside ==
    pc = "show_write" =>
        /\ ReadsInside(matrix, cur.mode)
        /\ \A m \in WideDisplays : ReadsInside(m, cur.mode)

\* a MONO_HLSB framebuffer is being decoded for a dual-channel display with
\* swapped columns, whose rows are narrower than a byte
C23_Witness ==
    /\ pc = "show_write"
    /\ cur.mode = COLOR_MONO
    /\ matrix.column_swap /\ ~matrix.single_chn
    /\ matrix.width % 8 # 0 /\ matrix.height >= 2

\* ----------------------------------------------------- claims on the mono tint

\* the step is a show call that raises: the driver is not initialized, or the
\* framebuffer has not the length of its format
ShowFails ==
    /\ ret'.op = "show"
    /\ ret'.err \in {"NotInitialized", "InvalidArgument"}
    /\ ledmatrix_show(Frames)

\* C24: a show call that fails (not initialized, or framebuffer size
\* mismatch) leaves the stored mono tint unchanged even when a mono_color
\* argument was supplied, so that the tint of later GS8/MONO_HLSB shows is the
\* one given to the most recent successful show (or 0xFFFFFF after init).
C24_FailedShowKeepsTint ==
    [][ShowFails => matrix'.mono_color = matrix.mono_color]_vars

====
